---------------------------- MODULE Spec2Model ----------------------------
(***************************************************************************)
(* bingoviewer: the interactive session of src/main.go (type Model and its *)
(* Update / loadDatabaseDialog / getData / lookup methods) as a state      *)
(* machine, and the flash overlay of package flasher (src/unnamed/part_001) *)
(* with the messages its commands put in flight.                           *)
(*                                                                         *)
(* Strings that the code inspects rune by rune (document values, table     *)
(* cells) are sequences of one-rune strings; "NL" stands for the newline   *)
(* rune, which unicode.IsPrint rejects.  Slices that the code indexes from *)
(* 0 are sequences indexed from 1; activeCollection keeps the code's       *)
(* 0-based value.  The view-only fields of Model (help, keys, window,      *)
(* showAllMessages, showRecord, viewport, the table's cursor) and the      *)
(* Style / CreatedAt fields of Message carry no behaviour modelled here.   *)
(***************************************************************************)
EXTENDS Integers, Sequences, FiniteSets, Bags, TLC

VARIABLES
    store,            \* the document store on disk: file -> database
    DatabaseFile,     \* Model.DatabaseFile ("" = none)
    driver,           \* Model.driver: the file the handle is open on ("" = nil)
    collections,      \* Model.collections (<<>> = nil)
    activeCollection, \* Model.activeCollection (0-based)
    columns,          \* Model.columns: sequence of alias groups
    rowData,          \* Model.rowData: display rows
    cleanRowData,     \* Model.cleanRowData: raw rows
    hdr,              \* Model.messages: the slice header [arr, len, cap]
    heap,             \* backing arrays of []Message: array id -> slots
    lastMsg,          \* Model.lastMsg, the acknowledgment watermark
    pc,               \* where the interactive thread is ("crashed": a panic
                      \* ended the process)
    timer,            \* the time.After(5s) timer of the pending select
    worker,           \* the goroutine of the loadDatabaseDialog call in progress
    zombies,          \* goroutines of calls that returned on timeout
    pendingClear,     \* some ClearMsg tick is scheduled and not yet delivered
    rowsOf,           \* which handle and collection produced columns/rows
    pre,              \* the session as it was when the open in progress began
    logBase,          \* len(m.messages) when the open in progress began
    located,          \* what the last lookup returned
    flash,            \* a flasher.Model: Id, Message, Active
    flashCmd,         \* the tea.Cmd its last Update returned
    flashIn,          \* the tea.Msg its last Update was called with
    inflight          \* messages of commands that have not been delivered

vars == <<store, DatabaseFile, driver, collections, activeCollection, columns,
          rowData, cleanRowData, hdr, heap, lastMsg, pc, timer, worker,
          zombies, pendingClear, rowsOf, pre, logBase, located,
          flash, flashCmd, flashIn, inflight>>

\* the variables of the flash overlay
flasher == <<flash, flashCmd, flashIn, inflight>>

\* the variables of the session of main.go
session == <<store, DatabaseFile, driver, collections, activeCollection,
             columns, rowData, cleanRowData, hdr, heap, lastMsg, pc, timer,
             worker, zombies, pendingClear, rowsOf, pre, logBase, located>>

-----------------------------------------------------------------------------
(* Bounds of the model *)

\* the log is not grown beyond this many entries
MaxMsgs == 4
\* goroutines abandoned by a timeout that may still be running
MaxZombies == 1
\* documents per collection when the store's content is drawn freely
MaxDocs == 2
\* messages of commands in flight to the flash overlay
MaxInflight == 2

-----------------------------------------------------------------------------
(* Values and documents (kmap = map[string]any) *)

Null == [tag |-> "null", s |-> <<>>]
Str(s) == [tag |-> "str", s |-> s]

\* unicode.IsPrint on the runes of the model
IsPrint(r) == r # "NL"

\* fmt.Sprintf("%v", val)
Sprint(val) == IF val.tag = "null" THEN <<"<", "n", "i", "l", ">">> ELSE val.s

RECURSIVE DropNonPrint(_)
\* strings.Map(func(r) { if unicode.IsPrint(r) { return r }; return -1 }, s)
DropNonPrint(s) ==
    IF s = <<>> THEN <<>>
    ELSE IF IsPrint(Head(s)) THEN <<Head(s)>> \o DropNonPrint(Tail(s))
         ELSE DropNonPrint(Tail(s))

\* the literal "(None)"
NoneCell == <<"(", "N", "o", "n", "e", ")">>

HasKey(doc, k) == k \in DOMAIN doc

-----------------------------------------------------------------------------
(* getData's projection of one document and of a collection *)

RECURSIVE FirstAlias(_, _)
FirstAliasLast(doc, colnames) ==
    LET present == {i \in 1..Len(colnames) : HasKey(doc, colnames[i])}
    IN  IF present = {} THEN 0
        ELSE CHOOSE i \in present : \A j \in present : j <= i
\* the inner loop of getData: index of the first alias that is a key of
\* doc (the loop breaks there), 0 when the loop ends with added = false
FirstAlias(doc, colnames) ==
    IF colnames = <<>> THEN 0
    ELSE IF HasKey(doc, Head(colnames)) THEN 1
    ELSE LET r == FirstAlias(doc, Tail(colnames))
         IN  IF r = 0 THEN 0 ELSE r + 1

\* the cell appended to row
DisplayCell(doc, colnames) ==
    LET i == FirstAlias(doc, colnames)
    IN  IF i = 0 THEN NoneCell
        ELSE DropNonPrint(Sprint(doc[colnames[i]]))

CleanCellMissingIsEmpty(doc, colnames) ==
    LET i == FirstAlias(doc, colnames)
    IN  IF i = 0 THEN Str(<<>>) ELSE doc[colnames[i]]
\* the cell appended to cleanRow
CleanCell(doc, colnames) ==
    LET i == FirstAlias(doc, colnames)
    IN  IF i = 0 THEN Null ELSE doc[colnames[i]]

ProjectDocCleanSkipsMissing(doc, cols) ==
    LET c[k \in 0..Len(cols)] ==
            IF k = 0 THEN <<>>
            ELSE IF FirstAlias(doc, cols[k]) = 0 THEN c[k - 1]
                 ELSE Append(c[k - 1], CleanCell(doc, cols[k]))
    IN  [row   |-> [j \in 1..Len(cols) |-> DisplayCell(doc, cols[j])],
         clean |-> c[Len(cols)]]
\* row and cleanRow of one visited document
ProjectDoc(doc, cols) ==
    [row   |-> [j \in 1..Len(cols) |-> DisplayCell(doc, cols[j])],
     clean |-> [j \in 1..Len(cols) |-> CleanCell(doc, cols[j])]]

RECURSIVE IterRows(_, _, _)
IterRowsReversed(docs, cols, acc) ==
    LET n == Len(docs)
    IN  [acc EXCEPT
            !.rows = @ \o [r \in 1..n |-> ProjectDoc(docs[n + 1 - r], cols).row],
            !.clean = @ \o [r \in 1..n |-> ProjectDoc(docs[n + 1 - r], cols).clean]]
\* Query(all).Iter(...): visits docs in store order; acc collects
\* orderedRows, cleanOrderedRows and whether loadErr was set
IterRows(docs, cols, acc) ==
    IF docs = <<>> THEN acc
    ELSE LET p == ProjectDoc(Head(docs), cols)
         IN  IF Len(p.row) # Len(cols)
             THEN IterRows(Tail(docs), cols, [acc EXCEPT !.loadErr = TRUE])
             ELSE IterRows(Tail(docs), cols,
                           [acc EXCEPT !.rows = Append(@, p.row),
                                       !.clean = Append(@, p.clean)])


-----------------------------------------------------------------------------
(* The document store (github.com/nokusukun/bingo), as the code consumes it *)

\* one document, as a map literal
Doc1(k, v) == k :> v
NoDoc == [k \in {} |-> Null]

\* driver.GetCollections()
GetCollections(st, f) ==
    [err |-> st[f].collsErr, colls |-> st[f].colls]

\* driver.FieldsOf(name): the alias groups of a collection; an unknown
\* collection or a store error is an error
FieldsOf(st, f, name) ==
    IF name \in DOMAIN st[f].data /\ ~st[f].data[name].fieldsErr
    THEN [err |-> FALSE, cols |-> st[f].data[name].fields]
    ELSE [err |-> TRUE, cols |-> <<>>]

\* the documents CollectionFrom(driver, name).Query visits, in store order
DocsOf(st, f, name) ==
    IF name \in DOMAIN st[f].data THEN st[f].data[name].docs ELSE <<>>

-----------------------------------------------------------------------------
(* m.messages: a Go slice.  A header is [arr, len, cap]; heap maps an array *)
(* id to the slots written so far.  Copies of Model share backing arrays.   *)

Entry(type, text) == [Type |-> type, Text |-> text]
ECancelled == Entry("error", "Open database cancelled")
EOpenFailed == Entry("error", "Open database failed")
ETimedOut == Entry("error", "Open database timed out")
ECollections == Entry("error", "Failed to get collections")
EColumns == Entry("error", "Failed to get columns")
ERowShape == Entry("error", "Row has wrong number of columns")
ILoaded == Entry("info", "Loaded row(s)")
SOpened == Entry("success", "Opened database")

NilHdr == [arr |-> 0, len |-> 0, cap |-> 0]
NoHdr == [arr |-> -1, len |-> 0, cap |-> 0]

\* capacity of the array append allocates when len = cap
GrowCap(c) == IF c = 0 THEN 1 ELSE 2 * c

FreshArr(hp) ==
    CHOOSE i \in 0..Cardinality(DOMAIN hp) :
        i \notin DOMAIN hp /\ \A j \in 0..(i - 1) : j \in DOMAIN hp

\* slot k of a backing array set to e
SetSlot(a, k, e) ==
    [i \in 1..(IF k > Len(a) THEN k ELSE Len(a)) |-> IF i = k THEN e ELSE a[i]]

\* append(s.hdr, e) on heap s.heap: in place when len < cap, else into a
\* fresh array holding a copy; the new header and heap
GoAppend(s, e) ==
    IF s.hdr.len < s.hdr.cap
    THEN [hdr  |-> [s.hdr EXCEPT !.len = @ + 1],
          heap |-> [s.heap EXCEPT ![s.hdr.arr] = SetSlot(@, s.hdr.len + 1, e)]]
    ELSE LET n == FreshArr(s.heap)
         IN  [hdr  |-> [arr |-> n, len |-> s.hdr.len + 1,
                        cap |-> GrowCap(s.hdr.cap)],
              heap |-> (n :> Append(SubSeq(s.heap[s.hdr.arr], 1, s.hdr.len), e))
                       @@ s.heap]

\* the headers a goroutine still holds
WorkerHdrs(w) == IF w.pc = "errRead" THEN {w.snap} ELSE {}
ZombieHdrs(z) == IF z.pc = "errRead" THEN {z.snap} ELSE {z.own}

\* heap without the arrays no header in hs refers to, each array cut after
\* the last slot a header in hs can read
Collect(hp, hs) ==
    LET live == {h.arr : h \in hs} \cap DOMAIN hp
        top(a) == LET ls == {h.len : h \in {x \in hs : x.arr = a}}
                  IN  CHOOSE l \in ls : \A k \in ls : k <= l
    IN  [a \in live |->
            SubSeq(hp[a], 1, IF top(a) < Len(hp[a]) THEN top(a) ELSE Len(hp[a]))]

\* the entries a header reads: s[0:len]
LogOf(h, hp) == SubSeq(hp[h.arr], 1, h.len)

\* the log as the session reads it: m.messages
Log == LogOf(hdr, heap)

\* View: len(m.messages) - m.lastMsg, the count shown before the last message
UnseenCount == hdr.len - lastMsg


-----------------------------------------------------------------------------
(* The Model value the interactive thread works on *)

\* the fields of m the handlers below read and write
M == [DatabaseFile |-> DatabaseFile, driver |-> driver,
      collections |-> collections, activeCollection |-> activeCollection,
      columns |-> columns, rowData |-> rowData, cleanRowData |-> cleanRowData,
      rowsOf |-> rowsOf, log |-> [hdr |-> hdr, heap |-> heap]]

NoActivation == [file |-> "", coll |-> ""]
NoPre == [DatabaseFile |-> "", driver |-> "", collections |-> <<>>,
          activeCollection |-> 0, columns |-> <<>>, rowData |-> <<>>,
          cleanRowData |-> <<>>]
NoWorker == [pc |-> "none", file |-> "", snap |-> NoHdr]
NoLookup == [row |-> 0, doc |-> NoDoc]

\* the table state of m, without the log
Table(m) == [DatabaseFile |-> m.DatabaseFile, driver |-> m.driver,
             collections |-> m.collections,
             activeCollection |-> m.activeCollection, columns |-> m.columns,
             rowData |-> m.rowData, cleanRowData |-> m.cleanRowData]

\* m.Info / m.Error / m.Success: m.messages = append(m.messages, Message{...})
Push(m, e) == [m EXCEPT !.log = GoAppend(@, e)]

\* Go's a % b (the sign follows a)
GoRem(a, b) == IF a >= 0 THEN a % b ELSE -((-a) % b)

GetDataKeepsRows(st, m) ==
    LET idx == m.activeCollection + 1
    IN  IF idx \notin 1..Len(m.collections)
        THEN [panic |-> TRUE, err |-> FALSE, m |-> m]
        ELSE
        LET name == m.collections[idx]
            f == FieldsOf(st, m.driver, name)
        IN  IF f.err THEN [panic |-> FALSE, err |-> TRUE, m |-> m]
            ELSE
            LET r == IterRows(DocsOf(st, m.driver, name), f.cols,
                              [rows |-> m.rowData, clean |-> m.cleanRowData,
                               loadErr |-> FALSE])
                m3 == Push([m EXCEPT !.columns = f.cols], ILoaded)
            IN  [panic |-> FALSE, err |-> FALSE,
                 m |-> [m3 EXCEPT !.rowData = r.rows,
                                  !.cleanRowData = r.clean,
                                  !.rowsOf = [file |-> m.driver, coll |-> name]]]
\* Model.getData: panic when collections[activeCollection] is out of range,
\* err when FieldsOf fails (m untouched), else the new columns, rows and log
GetData(st, m) ==
    LET idx == m.activeCollection + 1
    IN  IF idx \notin 1..Len(m.collections)
        THEN [panic |-> TRUE, err |-> FALSE, m |-> m]
        ELSE
        LET name == m.collections[idx]
            f == FieldsOf(st, m.driver, name)
        IN  IF f.err THEN [panic |-> FALSE, err |-> TRUE, m |-> m]
            ELSE
            LET r == IterRows(DocsOf(st, m.driver, name), f.cols,
                              [rows |-> <<>>, clean |-> <<>>, loadErr |-> FALSE])
                m1 == [m EXCEPT !.columns = f.cols]
                m2 == IF r.loadErr THEN Push(m1, ERowShape) ELSE m1
                m3 == Push(m2, ILoaded)
            IN  [panic |-> FALSE, err |-> FALSE,
                 m |-> [m3 EXCEPT !.rowData = r.rows,
                                  !.cleanRowData = r.clean,
                                  !.rowsOf = [file |-> m.driver, coll |-> name]]]

\* the headers some goroutine or the session can still read through
LiveHdrs(h, w, zs) ==
    {h} \cup WorkerHdrs(w) \cup UNION {ZombieHdrs(z) : z \in zs}

\* `return m`: the session continues with m
Return(m) ==
    /\ DatabaseFile' = m.DatabaseFile
    /\ driver' = m.driver
    /\ collections' = m.collections
    /\ activeCollection' = m.activeCollection
    /\ columns' = m.columns
    /\ rowData' = m.rowData
    /\ cleanRowData' = m.cleanRowData
    /\ rowsOf' = m.rowsOf
    /\ hdr' = m.log.hdr
    /\ heap' = Collect(m.log.heap, LiveHdrs(m.log.hdr, worker', zombies'))

\* the process panics
Crash ==
    /\ pc' = "crashed"
    /\ UNCHANGED <<flasher, store, DatabaseFile, driver, collections, activeCollection,
                   columns, rowData, cleanRowData, hdr, heap, lastMsg, timer,
                   worker, zombies, pendingClear, rowsOf, pre, logBase, located>>


-----------------------------------------------------------------------------
(* Model.lookup *)

\* the Filter closure of lookup: every alias of every column that is a key
\* of doc must print as the row's cell of that column
LookupMatch(doc, cols, rowDoc) ==
    \A i \in 1..Len(cols) :
        \A k \in 1..Len(cols[i]) :
            HasKey(doc, cols[i][k]) =>
                Sprint(doc[cols[i][k]]) = rowDoc[i]

\* res.First(): index in store order of the first document the filter
\* accepts, 0 for none (a nil *kmap)
QueryFirst(docs, cols, rowDoc) ==
    LET hits == {i \in 1..Len(docs) : LookupMatch(docs[i], cols, rowDoc)}
    IN  IF hits = {} THEN 0 ELSE CHOOSE i \in hits : \A j \in hits : i <= j

\* lookup(row): *res.First() panics on a nil result
Lookup(row) ==
    /\ pc = "idle"
    /\ row \in 1..Len(rowData)
    /\ LET docs == DocsOf(store, driver, collections[activeCollection + 1])
           i == QueryFirst(docs, columns, rowData[row])
       IN  IF activeCollection + 1 \notin 1..Len(collections) THEN Crash
           ELSE IF i = 0 THEN Crash
           ELSE /\ located' = [row |-> row, doc |-> docs[i]]
                /\ UNCHANGED <<flasher, store, DatabaseFile, driver, collections,
                               activeCollection, columns, rowData, cleanRowData,
                               hdr, heap, lastMsg, pc, timer, worker, zombies,
                               pendingClear, rowsOf, pre, logBase>>

-----------------------------------------------------------------------------
(* Model.Update: key and event handlers *)

\* case ClearMsg: m.lastMsg = len(m.messages); this tick is delivered, others
\* may remain scheduled
ClearMsgEvt ==
    /\ pc = "idle"
    /\ pendingClear
    /\ pendingClear' \in BOOLEAN
    /\ lastMsg' = hdr.len
    /\ located' = NoLookup
    /\ UNCHANGED <<flasher, store, DatabaseFile, driver, collections, activeCollection,
                   columns, rowData, cleanRowData, hdr, heap, pc, timer, worker,
                   zombies, rowsOf, pre, logBase>>

\* case keys.Escape: return m, m.ClearInfoAfter("10ms")
KeyEscape ==
    /\ pc = "idle"
    /\ pendingClear' = TRUE
    /\ located' = NoLookup
    /\ UNCHANGED <<flasher, store, DatabaseFile, driver, collections, activeCollection,
                   columns, rowData, cleanRowData, hdr, heap, lastMsg, pc, timer,
                   worker, zombies, rowsOf, pre, logBase>>

SwitchToSilent(a) ==
    LET g == GetData(store, [M EXCEPT !.activeCollection = a])
    IN  IF g.panic THEN Crash
        ELSE /\ UNCHANGED <<worker, zombies>>
             /\ Return(g.m)
             /\ located' = NoLookup
             /\ UNCHANGED <<flasher, store, lastMsg, pc, timer, pendingClear, pre, logBase>>
\* m.activeCollection = a; err := m.getData(); if err != nil { m.Error(...) }
SwitchTo(a) ==
    LET g == GetData(store, [M EXCEPT !.activeCollection = a])
    IN  IF g.panic THEN Crash
        ELSE /\ UNCHANGED <<worker, zombies>>
             /\ Return(IF g.err THEN Push(g.m, EColumns) ELSE g.m)
             /\ located' = NoLookup
             /\ UNCHANGED <<flasher, store, lastMsg, pc, timer, pendingClear, pre, logBase>>

\* case keys.Tab with "tab"
KeyTab ==
    /\ pc = "idle"
    /\ hdr.len < MaxMsgs
    /\ IF collections = <<>>
       THEN UNCHANGED vars
       ELSE SwitchTo(GoRem(activeCollection + 1, Len(collections)))

KeyShiftTabNoWrap ==
    /\ pc = "idle"
    /\ hdr.len < MaxMsgs
    /\ IF collections = <<>>
       THEN UNCHANGED vars
       ELSE SwitchTo(GoRem(activeCollection - 1, Len(collections)))
\* case keys.Tab with "shift+tab"
KeyShiftTab ==
    /\ pc = "idle"
    /\ hdr.len < MaxMsgs
    /\ IF collections = <<>>
       THEN UNCHANGED vars
       ELSE LET a == GoRem(activeCollection - 1, Len(collections))
            IN  SwitchTo(IF a < 0 THEN Len(collections) - 1 ELSE a)


-----------------------------------------------------------------------------
(* Model.loadDatabaseDialog *)

Files == DOMAIN store

\* dialog.Load() returned ErrCancelled
DialogCancelled ==
    /\ pc = "idle"
    /\ hdr.len < MaxMsgs
    /\ UNCHANGED <<worker, zombies>>
    /\ Return(Push(M, ECancelled))
    /\ located' = NoLookup
    /\ UNCHANGED <<flasher, store, lastMsg, pc, timer, pendingClear, pre, logBase>>

\* dialog.Load() returned another error
DialogFailed ==
    /\ pc = "idle"
    /\ hdr.len < MaxMsgs
    /\ UNCHANGED <<worker, zombies>>
    /\ Return(Push(M, EOpenFailed))
    /\ located' = NoLookup
    /\ UNCHANGED <<flasher, store, lastMsg, pc, timer, pendingClear, pre, logBase>>

\* the dialog returned f: m.DatabaseFile = load, the goroutine is started
\* and the thread waits in the select
OpenBegin(f) ==
    /\ pc = "idle"
    /\ hdr.len + 2 <= MaxMsgs
    /\ Cardinality(zombies) < MaxZombies
    /\ DatabaseFile' = f
    /\ worker' = [pc |-> "opening", file |-> f, snap |-> NoHdr]
    /\ pc' = "select"
    /\ timer' = "running"
    /\ pre' = Table(M)
    /\ logBase' = hdr.len
    /\ located' = NoLookup
    /\ UNCHANGED <<flasher, store, driver, collections, activeCollection, columns,
                   rowData, cleanRowData, hdr, heap, lastMsg, zombies,
                   pendingClear, rowsOf>>

\* the goroutine: bingo.NewDriver returned a driver; it blocks in
\* driverChan <- driver until the select receives
WorkerSucceed ==
    /\ pc \in {"select", "tmoRet"}
    /\ worker.pc = "opening"
    /\ worker' = [worker EXCEPT !.pc = "sendDrv"]
    /\ UNCHANGED <<flasher, store, DatabaseFile, driver, collections, activeCollection,
                   columns, rowData, cleanRowData, hdr, heap, lastMsg, pc, timer,
                   zombies, pendingClear, rowsOf, pre, logBase, located>>

\* the goroutine: bingo.NewDriver returned an error; m.Error reads
\* m.messages of the captured m
WorkerFail ==
    /\ pc \in {"select", "tmoRet"}
    /\ worker.pc = "opening"
    /\ worker' = [worker EXCEPT !.pc = "errRead", !.snap = hdr]
    /\ UNCHANGED <<flasher, store, DatabaseFile, driver, collections, activeCollection,
                   columns, rowData, cleanRowData, hdr, heap, lastMsg, pc, timer,
                   zombies, pendingClear, rowsOf, pre, logBase, located>>

\* the goroutine: m.Error stores the appended slice in the captured m, then
\* the goroutine blocks in driverChan <- nil
WorkerErrWrite ==
    /\ pc \in {"select", "tmoRet"}
    /\ worker.pc = "errRead"
    /\ worker' = [worker EXCEPT !.pc = "sendNil", !.snap = NoHdr]
    /\ LET s == GoAppend([hdr |-> worker.snap, heap |-> heap], EOpenFailed)
       IN  /\ hdr' = s.hdr
           /\ heap' = Collect(s.heap, LiveHdrs(s.hdr, worker', zombies))
    /\ UNCHANGED <<flasher, store, DatabaseFile, driver, collections, activeCollection,
                   columns, rowData, cleanRowData, lastMsg, pc, timer, zombies,
                   pendingClear, rowsOf, pre, logBase, located>>

\* the 5 s of time.After elapse
TimerFire ==
    /\ pc = "select"
    /\ timer = "running"
    /\ timer' = "fired"
    /\ UNCHANGED <<flasher, store, DatabaseFile, driver, collections, activeCollection,
                   columns, rowData, cleanRowData, hdr, heap, lastMsg, pc, worker,
                   zombies, pendingClear, rowsOf, pre, logBase, located>>

SelectTimeoutWaitsForWorker ==
    /\ pc = "select"
    /\ timer = "fired"
    /\ worker.pc # "opening"
    /\ pc' = "tmoRet"
    /\ LET s == GoAppend([hdr |-> hdr, heap |-> heap], ETimedOut)
       IN  /\ hdr' = s.hdr
           /\ heap' = Collect(s.heap, LiveHdrs(s.hdr, worker, zombies))
    /\ UNCHANGED <<flasher, store, DatabaseFile, driver, collections, activeCollection,
                   columns, rowData, cleanRowData, lastMsg, timer, worker,
                   zombies, pendingClear, rowsOf, pre, logBase, located>>
\* case <-time.After(...): m.Error("Open database timed out...")
SelectTimeout ==
    /\ pc = "select"
    /\ timer = "fired"
    /\ pc' = "tmoRet"
    /\ LET s == GoAppend([hdr |-> hdr, heap |-> heap], ETimedOut)
       IN  /\ hdr' = s.hdr
           /\ heap' = Collect(s.heap, LiveHdrs(s.hdr, worker, zombies))
    /\ UNCHANGED <<flasher, store, DatabaseFile, driver, collections, activeCollection,
                   columns, rowData, cleanRowData, lastMsg, timer, worker,
                   zombies, pendingClear, rowsOf, pre, logBase, located>>

\* what becomes of the goroutine when the call returns without receiving:
\* it keeps the captured m (its own copy of the header from now on); one
\* blocked in its send stays blocked for ever
Abandon(w, h) ==
    IF w.pc \in {"opening", "errRead"}
    THEN {[pc |-> w.pc, own |-> IF w.pc = "opening" THEN h ELSE NoHdr,
           snap |-> w.snap]}
    ELSE {}

\* ... return m, nil (line 338)
TmoReturn ==
    /\ pc = "tmoRet"
    /\ pc' = "idle"
    /\ timer' = "off"
    /\ zombies' = zombies \cup Abandon(worker, hdr)
    /\ worker' = NoWorker
    /\ pre' = NoPre
    /\ logBase' = 0
    /\ heap' = Collect(heap, LiveHdrs(hdr, worker', zombies'))
    /\ UNCHANGED <<flasher, store, DatabaseFile, driver, collections, activeCollection,
                   columns, rowData, cleanRowData, hdr, lastMsg, pendingClear,
                   rowsOf, located>>

\* case driver := <-driverChan with driver == nil: return m, nil
SelectRecvNil ==
    /\ pc = "select"
    /\ worker.pc = "sendNil"
    /\ pc' = "idle"
    /\ timer' = "off"
    /\ worker' = NoWorker
    /\ pre' = NoPre
    /\ logBase' = 0
    /\ UNCHANGED <<flasher, store, DatabaseFile, driver, collections, activeCollection,
                   columns, rowData, cleanRowData, hdr, heap, lastMsg, zombies,
                   pendingClear, rowsOf, located>>

\* lines 350-361 on m with the driver installed: the Model returned, and
\* whether getData panicked
AfterOpen(st, m) ==
    LET gc == GetCollections(st, m.driver)
        m1 == [m EXCEPT !.collections = gc.colls]
        g == GetData(st, m1)
    IN  IF gc.err
        THEN [panic |-> FALSE, opened |-> FALSE, m |-> Push(m, ECollections)]
        ELSE IF g.panic THEN [panic |-> TRUE, opened |-> FALSE, m |-> m1]
        ELSE [panic |-> FALSE, opened |-> TRUE,
              m |-> Push(IF g.err THEN Push(g.m, EColumns) ELSE g.m, SOpened)]

\* case driver := <-driverChan with a driver: m.driver = driver and the rest
\* of loadDatabaseDialog
SelectRecvDriver ==
    /\ pc = "select"
    /\ worker.pc = "sendDrv"
    /\ LET r == AfterOpen(store, [M EXCEPT !.driver = worker.file])
       IN  IF r.panic THEN Crash
           ELSE /\ pc' = "idle"
                /\ timer' = "off"
                /\ worker' = NoWorker
                /\ UNCHANGED zombies
                /\ Return(r.m)
                /\ pendingClear' = (r.opened \/ pendingClear)
                /\ pre' = NoPre
                /\ logBase' = 0
                /\ UNCHANGED <<flasher, store, lastMsg, located>>

\* an abandoned goroutine: NewDriver returns a driver; driverChan <- driver
\* never completes
ZombieSucceed(z) ==
    /\ pc # "crashed"
    /\ z.pc = "opening"
    /\ zombies' = zombies \ {z}
    /\ heap' = Collect(heap, LiveHdrs(hdr, worker, zombies'))
    /\ UNCHANGED <<flasher, store, DatabaseFile, driver, collections, activeCollection,
                   columns, rowData, cleanRowData, hdr, lastMsg, pc, timer,
                   worker, pendingClear, rowsOf, pre, logBase, located>>

\* an abandoned goroutine: NewDriver returns an error; m.Error reads
\* m.messages of the m it captured
ZombieFail(z) ==
    /\ pc # "crashed"
    /\ z.pc = "opening"
    /\ zombies' = (zombies \ {z})
                  \cup {[pc |-> "errRead", own |-> NoHdr, snap |-> z.own]}
    /\ UNCHANGED <<flasher, store, DatabaseFile, driver, collections, activeCollection,
                   columns, rowData, cleanRowData, hdr, heap, lastMsg, pc, timer,
                   worker, pendingClear, rowsOf, pre, logBase, located>>

\* an abandoned goroutine: m.Error appends to the slice it read, in the
\* backing array that slice shares with the session when len < cap; then
\* driverChan <- nil never completes
ZombieErrWrite(z) ==
    /\ pc # "crashed"
    /\ z.pc = "errRead"
    /\ zombies' = zombies \ {z}
    /\ LET s == GoAppend([hdr |-> z.snap, heap |-> heap], EOpenFailed)
       IN  heap' = Collect(s.heap, LiveHdrs(hdr, worker, zombies'))
    /\ UNCHANGED <<flasher, store, DatabaseFile, driver, collections, activeCollection,
                   columns, rowData, cleanRowData, hdr, lastMsg, pc, timer,
                   worker, pendingClear, rowsOf, pre, logBase, located>>


-----------------------------------------------------------------------------
(* package flasher.  A tea.Cmd is represented by the message it yields when *)
(* the runtime runs it; the runtime delivers that message to Update later.  *)

FlashIds == {"a", "b"}
FlashTexts == {"m", "n"}

\* the dynamic types a FlashEvent carries in Type
FlashMessage(m) == [kind |-> "FlashMessage", text |-> m]
FlashConfirmMsg == [kind |-> "FlashConfirmMsg", text |-> ""]
FlashInterruptMsg == [kind |-> "FlashInterruptMsg", text |-> ""]

FlashEvent(id, type) == [msg |-> "FlashEvent", Id |-> id, Type |-> type]
\* tea.KeyMsg with msg.String() = k, and a message of any other type
KeyMsg(k) == [msg |-> "KeyMsg", key |-> k]
OtherMsg == [msg |-> "WindowSizeMsg"]
\* a nil tea.Cmd
NoCmd == [msg |-> "nil"]

\* the messages yielded by the commands SendFlash, ConfirmFlash, interrupt
SendFlash(id, m) == FlashEvent(id, FlashMessage(m))
ConfirmFlash(id) == FlashEvent(id, FlashConfirmMsg)
interrupt(id) == FlashEvent(id, FlashInterruptMsg)

\* flasher.New(id)
New(id) == [Id |-> id, Message |-> "", Active |-> FALSE]

UpdateAnyId(f, msg) ==
    IF msg.msg = "FlashEvent"
    THEN CASE msg.Type.kind = "FlashMessage" ->
                  [f |-> [f EXCEPT !.Message = msg.Type.text, !.Active = TRUE],
                   cmd |-> NoCmd]
           [] msg.Type.kind = "FlashConfirmMsg" ->
                  [f |-> [f EXCEPT !.Active = FALSE], cmd |-> NoCmd]
           [] msg.Type.kind = "FlashInterruptMsg" ->
                  [f |-> f, cmd |-> IF f.Active THEN interrupt(f.Id) ELSE NoCmd]
           [] OTHER -> [f |-> f, cmd |-> NoCmd]
    ELSE IF msg.msg = "KeyMsg"
    THEN IF msg.key \in {"enter", "esc", "q"}
         THEN [f |-> [f EXCEPT !.Active = FALSE], cmd |-> NoCmd]
         ELSE [f |-> f, cmd |-> IF f.Active THEN interrupt(f.Id) ELSE NoCmd]
    ELSE [f |-> f, cmd |-> NoCmd]
UpdateInterruptAlways(f, msg) ==
    IF msg.msg = "FlashEvent"
    THEN IF msg.Id # f.Id THEN [f |-> f, cmd |-> NoCmd]
         ELSE CASE msg.Type.kind = "FlashMessage" ->
                       [f |-> [f EXCEPT !.Message = msg.Type.text,
                                        !.Active = TRUE],
                        cmd |-> NoCmd]
                [] msg.Type.kind = "FlashConfirmMsg" ->
                       [f |-> [f EXCEPT !.Active = FALSE], cmd |-> NoCmd]
                [] msg.Type.kind = "FlashInterruptMsg" ->
                       [f |-> f, cmd |-> interrupt(f.Id)]
                [] OTHER -> [f |-> f, cmd |-> NoCmd]
    ELSE IF msg.msg = "KeyMsg"
    THEN IF msg.key \in {"enter", "esc", "q"}
         THEN [f |-> [f EXCEPT !.Active = FALSE], cmd |-> NoCmd]
         ELSE IF ~f.Active THEN [f |-> f, cmd |-> NoCmd]
              ELSE [f |-> f, cmd |-> interrupt(f.Id)]
    ELSE [f |-> f, cmd |-> NoCmd]
\* func (f Model) Update(msg tea.Msg) (Model, tea.Cmd)
Update(f, msg) ==
    IF msg.msg = "FlashEvent"
    THEN IF msg.Id # f.Id THEN [f |-> f, cmd |-> NoCmd]
         ELSE CASE msg.Type.kind = "FlashMessage" ->
                       [f |-> [f EXCEPT !.Message = msg.Type.text,
                                        !.Active = TRUE],
                        cmd |-> NoCmd]
                [] msg.Type.kind = "FlashConfirmMsg" ->
                       [f |-> [f EXCEPT !.Active = FALSE], cmd |-> NoCmd]
                [] msg.Type.kind = "FlashInterruptMsg" ->
                       IF f.Active THEN [f |-> f, cmd |-> interrupt(f.Id)]
                       ELSE [f |-> f, cmd |-> NoCmd]
                [] OTHER -> [f |-> f, cmd |-> NoCmd]
    ELSE IF msg.msg = "KeyMsg"
    THEN IF msg.key \in {"enter", "esc", "q"}
         THEN [f |-> [f EXCEPT !.Active = FALSE], cmd |-> NoCmd]
         ELSE IF ~f.Active THEN [f |-> f, cmd |-> NoCmd]
              ELSE [f |-> f, cmd |-> interrupt(f.Id)]
    ELSE [f |-> f, cmd |-> NoCmd]

\* the runtime calls Update with msg, keeps the Model returned and runs the
\* command returned, whose message is then in flight; rest is what stays in
\* flight of the messages that were
Handle(msg, rest) ==
    LET r == Update(flash, msg)
    IN  /\ flash' = r.f
        /\ flashCmd' = r.cmd
        /\ flashIn' = msg
        /\ inflight' = IF r.cmd = NoCmd THEN rest
                       ELSE rest (+) SetToBag({r.cmd})
        /\ r.cmd # NoCmd => BagCardinality(rest) < MaxInflight
        /\ UNCHANGED session

\* some component runs SendFlash(id, m) or ConfirmFlash(id), or another
\* flasher.Model's Update returns interrupt(id) with its own Id
FlashPost(e) ==
    /\ BagCardinality(inflight) < MaxInflight
    /\ e.Type = FlashInterruptMsg => e.Id # flash.Id
    /\ inflight' = inflight (+) SetToBag({e})
    /\ UNCHANGED <<flash, flashCmd, flashIn, session>>

\* a message in flight reaches Update
FlashDeliver(e) ==
    /\ BagIn(e, inflight)
    /\ Handle(e, inflight (-) SetToBag({e}))

\* a key press reaches Update
FlashKey(k) == Handle(KeyMsg(k), inflight)

\* a message of another type reaches Update
FlashOther == Handle(OtherMsg, inflight)

\* the FlashEvents that can be posted, and the keys
FlashEvents ==
    {FlashEvent(id, t) :
        id \in FlashIds,
        t \in {FlashMessage(m) : m \in FlashTexts}
              \cup {FlashConfirmMsg, FlashInterruptMsg}}
FlashKeys == {"enter", "esc", "q", "x"}

\* main.go instantiates no flasher.Model
NoFlasher ==
    /\ flash = New("")
    /\ flashCmd = NoCmd
    /\ flashIn = OtherMsg
    /\ inflight = EmptyBag

-----------------------------------------------------------------------------
(* Stores *)

Coll(fields, docs) == [fieldsErr |-> FALSE, fields |-> fields, docs |-> docs]
BrokenColl == [fieldsErr |-> TRUE, fields |-> <<>>, docs |-> <<>>]
Db(colls, data) == [collsErr |-> FALSE, colls |-> colls, data |-> data]

\* a.db: users (one column with two aliases; three documents), a
\*       collection whose fields the store cannot enumerate, and logs (two
\*       columns; one document without the first)
\* b.db: one collection, one document whose value ends in a newline
\* e.db: no collection
\* x.db: the collections cannot be listed
Users == Coll(<<<<"name", "nm">>>>,
              <<Doc1("name", Str(<<"a">>)), Doc1("nm", Str(<<"b">>)), NoDoc>>)

World ==
    ("a.db" :> Db(<<"users", "bad", "logs">>,
                  ("users" :> Users) @@ ("bad" :> BrokenColl)
                  @@ ("logs" :> Coll(<<<<"id">>, <<"msg", "m">>>>,
                                     <<Doc1("m", Str(<<"x">>))>>))))
    @@ ("b.db" :> Db(<<"items">>,
                     "items" :> Coll(<<<<"id">>>>,
                                     <<Doc1("id", Str(<<"a", "NL">>))>>)))
    @@ ("e.db" :> Db(<<>>, [c \in {} |-> BrokenColl]))
    @@ ("x.db" :> [collsErr |-> TRUE, colls |-> <<>>,
                   data |-> [c \in {} |-> BrokenColl]])

\* the columns, values and documents of the freely drawn collection
ProjCols == <<<<"name", "nm">>, <<"id">>>>
ProjDocs ==
    {n @@ m @@ e :
        n \in {NoDoc} \cup {Doc1("name", v) :
                   v \in {Str(<<>>), Str(<<"a">>), Str(<<"a", "NL">>)}},
        m \in {NoDoc, Doc1("nm", Str(<<"a">>))},
        e \in {NoDoc, Doc1("id", Null)}}
ProjStores ==
    {"p.db" :> Db(<<"c", "users">>,
                  ("c" :> Coll(ProjCols, docs)) @@ ("users" :> Users)) :
        docs \in UNION {[1..k -> ProjDocs] : k \in 0..MaxDocs}}

-----------------------------------------------------------------------------
(* Specifications *)

\* NewModel()
NewModel == [DatabaseFile |-> "", driver |-> "", collections |-> <<>>,
             activeCollection |-> 0, columns |-> <<>>, rowData |-> <<>>,
             cleanRowData |-> <<>>, rowsOf |-> NoActivation,
             log |-> [hdr |-> NilHdr, heap |-> (0 :> <<>>)]]

\* the session holds m, no open is in progress
Holds(m) ==
    /\ DatabaseFile = m.DatabaseFile
    /\ driver = m.driver
    /\ collections = m.collections
    /\ activeCollection = m.activeCollection
    /\ columns = m.columns
    /\ rowData = m.rowData
    /\ cleanRowData = m.cleanRowData
    /\ rowsOf = m.rowsOf
    /\ hdr = m.log.hdr
    /\ heap = Collect(m.log.heap, {m.log.hdr})
    /\ lastMsg = 0
    /\ pc = "idle"
    /\ timer = "off"
    /\ worker = NoWorker
    /\ zombies = {}
    /\ pre = NoPre
    /\ logBase = 0
    /\ located = NoLookup

Init ==
    /\ store = World
    /\ pendingClear = FALSE
    /\ Holds(NewModel)
    /\ NoFlasher

Next ==
    \/ DialogCancelled
    \/ DialogFailed
    \/ \E f \in Files : OpenBegin(f)
    \/ WorkerSucceed
    \/ WorkerFail
    \/ WorkerErrWrite
    \/ TimerFire
    \/ SelectTimeout
    \/ TmoReturn
    \/ SelectRecvNil
    \/ SelectRecvDriver
    \/ \E z \in zombies : ZombieSucceed(z)
    \/ \E z \in zombies : ZombieFail(z)
    \/ \E z \in zombies : ZombieErrWrite(z)
    \/ ClearMsgEvt
    \/ KeyEscape
    \/ KeyTab
    \/ KeyShiftTab
    \/ \E row \in 1..Len(rowData) : Lookup(row)

Spec == Init /\ [][Next]_vars

\* time passes, so the timer of a pending select fires, and the interactive
\* thread keeps running; nothing makes bingo.NewDriver return
FairSpec ==
    /\ Spec
    /\ WF_vars(TimerFire)
    /\ WF_vars(SelectTimeout)
    /\ WF_vars(TmoReturn)

\* a session that has just opened p.db, whose first collection holds any
\* documents of ProjDocs in any order
InitProj ==
    /\ store \in ProjStores
    /\ pendingClear = TRUE
    /\ Holds(AfterOpen(store, [NewModel EXCEPT !.DatabaseFile = "p.db",
                                               !.driver = "p.db"]).m)
    /\ NoFlasher

NextProj ==
    \/ KeyTab
    \/ KeyShiftTab
    \/ \E row \in 1..Len(rowData) : Lookup(row)

ProjSpec == InitProj /\ [][NextProj]_vars

\* a program that holds one flasher.Model, created by New with either Id,
\* beside a session that is left alone
InitFlash ==
    /\ store = World
    /\ pendingClear = FALSE
    /\ Holds(NewModel)
    /\ flash \in {New(id) : id \in FlashIds}
    /\ flashCmd = NoCmd
    /\ flashIn = OtherMsg
    /\ inflight = EmptyBag

NextFlash ==
    \/ \E e \in FlashEvents : FlashPost(e)
    \/ \E e \in FlashEvents : FlashDeliver(e)
    \/ \E k \in FlashKeys : FlashKey(k)
    \/ FlashOther

FlashSpec == InitFlash /\ [][NextFlash]_vars

\* the runtime runs every command it is handed, so the interrupt a command
\* of this Model put in flight is delivered to Update in the end
FairFlashSpec ==
    /\ FlashSpec
    /\ \A id \in FlashIds : WF_vars(FlashDeliver(interrupt(id)))


-----------------------------------------------------------------------------
(* Properties *)

\* the documents of the active collection, in store order
ActiveDocs == DocsOf(store, driver, collections[activeCollection + 1])

\* no two cells of a display row are the same text
NoCollidingColumns(row) ==
    \A i, j \in 1..Len(row) : i # j => row[i] # row[j]

\* the entries the open call in progress has appended, as the next state
\* reads them
NewEntries == {LogOf(hdr', heap')[i] : i \in (logBase + 1)..hdr'.len}

\* steps by which the open call in progress returns
ReturnsTimeout == pc = "tmoRet" /\ pc' = "idle"
ReturnsOpenError == pc = "select" /\ worker.pc = "sendNil" /\ pc' = "idle"
ReceivesDriver ==
    pc = "select" /\ worker.pc = "sendDrv" /\ pc' \in {"idle", "crashed"}

\* C1: for every displayed row whose cells differ from column to column,
\* the document lookup returns projects onto exactly that row's cells
C1_LocatorRoundTrip ==
    (located.row # 0 /\ NoCollidingColumns(rowData[located.row])) =>
        ProjectDoc(located.doc, columns).row = rowData[located.row]

\* C2: an open that returns OpenError or TimeoutError leaves the database
\* file, driver, collections, active collection, columns and rows as they
\* were when the call began
C2_FailedOpenKeepsState ==
    [][(ReturnsTimeout \/ ReturnsOpenError) =>
          [DatabaseFile |-> DatabaseFile', driver |-> driver',
           collections |-> collections',
           activeCollection |-> activeCollection', columns |-> columns',
           rowData |-> rowData', cleanRowData |-> cleanRowData'] = pre]_vars

\* C3: a call of open surfaces exactly one of success (the driver is
\* received), OpenError (an "Open database failed" entry) and TimeoutError
\* (an "Open database timed out" entry), and the driver changes only when
\* the driver is received
C3_ExactlyOneOutcome ==
    [][/\ (ReturnsTimeout \/ ReturnsOpenError \/ ReceivesDriver) =>
              Cardinality({o \in {"success", "openError", "timeout"} :
                  \/ o = "success" /\ ReceivesDriver
                  \/ o = "openError" /\ EOpenFailed \in NewEntries
                  \/ o = "timeout" /\ ETimedOut \in NewEntries}) = 1
       /\ driver' # driver => ReceivesDriver]_vars

\* C4: a step of a goroutine abandoned by a timeout changes nothing the
\* session reads: driver, collections, columns, rows, log
C4_AbandonedWorkerUnobserved ==
    [][(pc' = pc /\ zombies' # zombies) =>
          /\ LogOf(hdr', heap') = Log
          /\ UNCHANGED <<driver, collections, columns, rowData, cleanRowData,
                         lastMsg>>]_vars

\* C5: every wait in the select ends, with the call back in the interactive
\* thread (or the process ended by a panic raised after the select); a call
\* that returns while NewDriver has not returned does so from the timeout
\* branch, which logged the timeout, and with the driver it began with
C5_OpenReturns ==
    /\ (pc = "select") ~> (pc \in {"idle", "crashed"})
    /\ [][/\ (pc \in {"select", "tmoRet"} /\ pc' = "idle" /\ worker.pc = "opening")
             => (pc = "tmoRet" /\ driver' = pre.driver)
          /\ (pc = "select" /\ pc' = "tmoRet")
             => (hdr'.len = hdr.len + 1 /\ LogOf(hdr', heap')[hdr'.len] = ETimedOut)
         ]_vars

\* a call returned on timeout while its goroutine is still in NewDriver
C5_Witness ==
    /\ pc = "idle"
    /\ \E z \in zombies : z.pc = "opening"
    /\ hdr.len > 0
    /\ Log[hdr.len] = ETimedOut

\* C6: whenever rows are held, columns and rows were produced from
\* collections[activeCollection] of the database the driver is open on
C6_ActivationConsistency ==
    (pc = "idle" /\ rowData # <<>>) =>
        rowsOf = [file |-> driver, coll |-> collections[activeCollection + 1]]

\* C7: a failing operation (open failure, open timeout, failure to list
\* collections, schema failure during open or during a collection switch)
\* appends exactly one entry to the log
C7_OneEntryPerFailure ==
    [][/\ (\/ ReturnsTimeout
           \/ ReturnsOpenError
           \/ (ReceivesDriver /\ pc' = "idle"
               /\ NewEntries \cap {ECollections, EColumns} # {}))
          => hdr'.len = logBase + 1
       /\ (pc = "idle" /\ pc' = "idle" /\ hdr'.len > hdr.len
           /\ LogOf(hdr', heap')[hdr'.len].Type = "error")
          => hdr'.len = hdr.len + 1]_vars

\* C8: lookup never ends the process: a row no document matches is reported
\* to the caller
C8_LocateNeverCrashes == pc # "crashed"

\* C9: the raw cell of document r under column j is the document's value
\* at the first alias of the column that is a key of the document, whatever
\* later aliases hold, and the display cell is the printable runes of that
\* value's text
C9_FirstMatch ==
    /\ Len(rowData) = Len(ActiveDocs)
    /\ Len(cleanRowData) = Len(ActiveDocs)
    /\ \A r \in 1..Len(ActiveDocs) : \A j \in 1..Len(columns) :
          LET doc == ActiveDocs[r]
              present == {i \in 1..Len(columns[j]) : HasKey(doc, columns[j][i])}
          IN  \A i \in present :
                  (\A k \in present : i <= k) =>
                      /\ cleanRowData[r][j] = doc[columns[j][i]]
                      /\ rowData[r][j] = DropNonPrint(Sprint(doc[columns[j][i]]))

\* a projected document holds an empty string at the first alias and
\* another value at the second
C9_Witness ==
    \E r \in 1..Len(rowData) :
        /\ columns = ProjCols
        /\ HasKey(ActiveDocs[r], "name") /\ HasKey(ActiveDocs[r], "nm")
        /\ ActiveDocs[r]["name"] = Str(<<>>)
        /\ ActiveDocs[r]["nm"] = Str(<<"a">>)
        /\ rowData[r][1] = <<>>

\* C10: where no alias of column j is a key of document r, the raw cell is
\* null and the display cell is "(None)"; columns [{name,nm}] over {name:a},
\* {nm:b}, {} give display rows [a],[b],[(None)] and raw rows [a],[b],[null]
C10_MissingField ==
    /\ \A r \in 1..Len(ActiveDocs) : \A j \in 1..Len(columns) :
          (\A i \in 1..Len(columns[j]) : ~HasKey(ActiveDocs[r], columns[j][i]))
              => /\ cleanRowData[r][j] = Null
                 /\ rowData[r][j] = NoneCell
    /\ collections[activeCollection + 1] = "users" =>
          /\ rowData = << <<<<"a">>>>, <<<<"b">>>>, <<NoneCell>> >>
          /\ cleanRowData = << <<Str(<<"a">>)>>, <<Str(<<"b">>)>>, <<Null>> >>

\* the three documents of the example are projected, the third without any
\* alias of the column
C10_Witness ==
    /\ collections[activeCollection + 1] = "users"
    /\ Len(rowData) = 3
    /\ rowData[3] = <<NoneCell>>
    /\ cleanRowData[3] = <<Null>>

\* C11: the display matrix and the raw matrix have the same number of rows,
\* and every display row and every raw row has exactly len(columns) cells
C11_ShapeInvariant ==
    /\ Len(rowData) = Len(cleanRowData)
    /\ \A r \in 1..Len(rowData) :
          /\ Len(rowData[r]) = Len(columns)
          /\ Len(cleanRowData[r]) = Len(columns)

\* rows are held, one of them for a document without any alias of the column
C11_Witness ==
    /\ pc = "idle"
    /\ Len(columns) = 1
    /\ \E r \in 1..Len(rowData) :
          rowData[r] = <<NoneCell>> /\ Len(cleanRowData[r]) = 1

\* C12: the unseen count len(log) - watermark is never negative, is 0 right
\* after the ClearMsg event, and each call of Info / Error / Success raises
\* it by one (so N calls since the last ClearMsg make it N, and one call
\* after a ClearMsg makes it 1)
C12_WatermarkLaw ==
    /\ [](UnseenCount >= 0)
    /\ [][/\ (ClearMsgEvt \/ lastMsg' # lastMsg) => UnseenCount' = 0
          /\ (\/ DialogCancelled
              \/ DialogFailed
              \/ SelectTimeout
              \/ WorkerErrWrite
              \/ ((KeyTab \/ KeyShiftTab) /\ collections # <<>> /\ pc' = "idle"))
             => UnseenCount' = UnseenCount + 1
          /\ (SelectRecvDriver /\ pc' = "idle")
             => UnseenCount' = UnseenCount
                    + (IF GetCollections(store, worker.file).err THEN 1 ELSE 2)
         ]_vars

\* C13: the log of a state is a prefix of the log of every later state (no
\* entry is changed or removed), and the watermark never decreases and
\* never exceeds the length of the log
C13_AppendOnly ==
    [][/\ hdr'.len >= hdr.len
       /\ SubSeq(LogOf(hdr', heap'), 1, hdr.len) = Log
       /\ lastMsg' >= lastMsg
       /\ lastMsg' <= hdr'.len]_vars

\* C14: a Tab or shift+Tab whose target collection the store cannot
\* enumerate the fields of leaves columns, display rows and raw rows as they
\* were, appends the error entry "Failed to get columns" to the log, and
\* does not end the process
C14_SchemaErrorAbortsSwitch ==
    [][((KeyTab \/ KeyShiftTab)
        /\ collections # <<>>
        /\ FieldsOf(store, driver, collections[activeCollection' + 1]).err)
       => /\ pc' = "idle"
          /\ UNCHANGED <<columns, rowData, cleanRowData>>
          /\ LogOf(hdr', heap') = Append(Log, EColumns)
          /\ EColumns.Type = "error"]_vars

\* the rows of users are still held after a switch to the collection whose
\* fields cannot be enumerated
C14_Witness ==
    /\ pc = "idle"
    /\ collections # <<>>
    /\ collections[activeCollection + 1] = "bad"
    /\ rowsOf.coll = "users"
    /\ Len(rowData) = 3
    /\ hdr.len > 0
    /\ Log[hdr.len] = EColumns

\* C15: the r-th display row and the r-th raw row come from the r-th
\* document in the store's iteration order, no document is left out, and at
\* every column the display cell and the raw cell come from the same alias
\* of that document (or are both the placeholder when it has none)
C15_RowOrderAndAlignment ==
    /\ Len(rowData) = Len(ActiveDocs)
    /\ Len(cleanRowData) = Len(ActiveDocs)
    /\ \A r \in 1..Len(ActiveDocs) : \A j \in 1..Len(columns) :
          LET doc == ActiveDocs[r]
          IN  \/ \E i \in 1..Len(columns[j]) :
                    /\ HasKey(doc, columns[j][i])
                    /\ cleanRowData[r][j] = doc[columns[j][i]]
                    /\ rowData[r][j] = DropNonPrint(Sprint(cleanRowData[r][j]))
              \/ /\ \A i \in 1..Len(columns[j]) : ~HasKey(doc, columns[j][i])
                 /\ cleanRowData[r][j] = Null
                 /\ rowData[r][j] = NoneCell

\* two documents with different projections are shown, in store order,
\* after a switch away from their collection and back
C15_Witness ==
    /\ columns = ProjCols
    /\ hdr.len > 2
    /\ Len(rowData) = 2
    /\ rowData[1] # rowData[2]
    /\ rowData[1] = ProjectDoc(ActiveDocs[1], columns).row
    /\ cleanRowData[2] # cleanRowData[1]

\* C16: the rows held are a function of the documents and columns of the
\* collection they were projected from, whatever was shown before, and a
\* step that projects the same collection of the same database again (Tab
\* with a single collection, a re-open of the same file) leaves columns,
\* display rows and raw rows as they were
C16_ProjectionDeterministic ==
    /\ [](rowsOf # NoActivation =>
            LET docs == DocsOf(store, rowsOf.file, rowsOf.coll)
                cols == FieldsOf(store, rowsOf.file, rowsOf.coll).cols
            IN  /\ columns = cols
                /\ rowData = [r \in 1..Len(docs) |->
                                 [j \in 1..Len(cols) |-> DisplayCell(docs[r], cols[j])]]
                /\ cleanRowData = [r \in 1..Len(docs) |->
                                 [j \in 1..Len(cols) |-> CleanCell(docs[r], cols[j])]])
    /\ [][(rowsOf # NoActivation /\ rowsOf' = rowsOf)
            => UNCHANGED <<columns, rowData, cleanRowData>>]_vars

\* the single collection of b.db has been projected by the open and again
\* by a Tab
C16_Witness ==
    /\ pc = "idle"
    /\ driver = "b.db"
    /\ rowsOf = [file |-> "b.db", coll |-> "items"]
    /\ Len(rowData) = 1
    /\ hdr.len >= 3
    /\ Log[hdr.len] = ILoaded

\* C17: whenever collections are held, activeCollection indexes one of
\* them, and neither an open (first or of another database, with any number
\* of collections) nor Tab nor shift+Tab ends the process by indexing
\* collections out of range or dividing by len(collections) = 0
C17_CollectionIndexInRange ==
    /\ [](collections # <<>> =>
            activeCollection \in 0..(Len(collections) - 1))
    /\ [][(pc = "select" \/ KeyTab \/ KeyShiftTab) => pc' # "crashed"]_vars

\* C18: the document that produced a displayed row passes the filter that
\* lookup builds from that row's display cells, so the query of lookup has
\* a first match for every displayed row
C18_LocatorComplete ==
    \A r \in 1..Len(rowData) :
        /\ LookupMatch(ActiveDocs[r], columns, rowData[r])
        /\ QueryFirst(ActiveDocs, columns, rowData[r]) # 0

\* C19: with n >= 1 collections Tab moves activeCollection to (a+1) mod n
\* and shift+Tab to (a-1) mod n (from 0 to n-1), each undoing the other and
\* neither changing collections nor ending the process; with nil
\* collections both keys change nothing at all
C19_CollectionCycling ==
    [][LET n == Len(collections)
           a == activeCollection
       IN  /\ (KeyTab /\ n >= 1) =>
                  /\ activeCollection' = (a + 1) % n
                  /\ (activeCollection' - 1) % n = a
                  /\ pc' = "idle" /\ UNCHANGED collections
           /\ (KeyShiftTab /\ n >= 1) =>
                  /\ activeCollection' = (a - 1) % n
                  /\ (activeCollection' + 1) % n = a
                  /\ (a = 0 => activeCollection' = n - 1)
                  /\ pc' = "idle" /\ UNCHANGED collections
           /\ ((KeyTab \/ KeyShiftTab) /\ n = 0) => UNCHANGED vars]_vars

\* shift+Tab on the first of three collections, right after the open, has
\* wrapped to the last
C19_Witness ==
    /\ pc = "idle"
    /\ Len(collections) = 3
    /\ activeCollection = 2
    /\ rowsOf.coll = "logs"
    /\ hdr.len = 3

\* C20: a FlashEvent whose Id is not the Model's leaves Id, Message and
\* Active as they were and yields no command, and no message changes Id;
\* Active becomes true, or Message changes, only by a FlashMessage event
\* with the Model's Id, which sets Message to its text
C20_FlashAddressing ==
    [][/\ \A e \in FlashEvents :
             (FlashDeliver(e) /\ e.Id # flash.Id) =>
                 /\ flash' = flash
                 /\ flashCmd' = NoCmd
                 /\ inflight' = inflight (-) SetToBag({e})
       /\ flash'.Id = flash.Id
       /\ ((flash'.Active /\ ~flash.Active) \/ flash'.Message # flash.Message)
             => \E m \in FlashTexts :
                    /\ FlashDeliver(SendFlash(flash.Id, m))
                    /\ flash' = [flash EXCEPT !.Message = m, !.Active = TRUE]
      ]_vars

\* an active flash has just been handed a confirm event with another Id
C20_Witness ==
    /\ flash.Id = "a"
    /\ flash.Active
    /\ flash.Message = "m"
    /\ flashIn = ConfirmFlash("b")
    /\ flashCmd = NoCmd

\* interrupts of the Model's own Id that are in flight
OwnInterrupts == CopiesIn(interrupt(flash.Id), inflight)

\* Update is called with some message
UpdateStep ==
    \/ \E e \in FlashEvents : FlashDeliver(e)
    \/ \E k \in FlashKeys : FlashKey(k)
    \/ FlashOther

\* C21: a flash that is not Active returns no command for any message, so
\* an interrupt that reaches it is absorbed; an Active flash answers every
\* interrupt addressed to it and every key other than enter, esc and q with
\* a new interrupt for its Id and stays as it is; a confirm with its Id and
\* the keys enter, esc and q leave it not Active and return no command; and
\* while it stays not Active, the interrupts in flight for it run out
C21_InterruptChain ==
    /\ [][/\ (~flash.Active /\ UpdateStep) => flashCmd' = NoCmd
          /\ (~flash.Active /\ FlashDeliver(interrupt(flash.Id)))
                => /\ flash' = flash
                   /\ inflight' = inflight (-) SetToBag({interrupt(flash.Id)})
          /\ (/\ flash.Active
              /\ \/ FlashDeliver(interrupt(flash.Id))
                 \/ \E k \in FlashKeys \ {"enter", "esc", "q"} : FlashKey(k))
                => /\ flashCmd' = interrupt(flash.Id)
                   /\ flash' = flash
                   /\ BagIn(interrupt(flash.Id), inflight')
          /\ (\/ FlashDeliver(ConfirmFlash(flash.Id))
              \/ \E k \in {"enter", "esc", "q"} : FlashKey(k))
                => /\ ~flash'.Active
                   /\ flashCmd' = NoCmd
         ]_vars
    /\ (~flash.Active) ~> (flash.Active \/ OwnInterrupts = 0)

\* a flash that was shown and dismissed has just absorbed an interrupt that
\* was still in flight for it
C21_Witness ==
    /\ ~flash.Active
    /\ flash.Message # ""
    /\ flashIn = interrupt(flash.Id)
    /\ flashCmd = NoCmd

=============================================================================
